---- MODULE Spec2Model ----
(***************************************************************************)
(* A model of satpy/dataset.py: the DataID identifier (an immutable dict   *)
(* built from a schema of id keys), the DataQuery that matches and ranks   *)
(* DataIDs, and the value types they hold (ValueList enums,                *)
(* WavelengthRange, ModifierTuple).                                        *)
(*                                                                         *)
(* Python values are records of one shape, tagged by t:                    *)
(*   "none"  None                                                          *)
(*   "num"   a number n                                                    *)
(*   "str"   a string s                                                    *)
(*   "enum"  a ValueList member, name s and integer value n                *)
(*   "wr"    a WavelengthRange (min n, central c, max x, unit s)           *)
(*   "tup3"  a plain 3-tuple of numbers (n, c, x)                          *)
(*   "modt"  a ModifierTuple of the strings m                              *)
(*   "tup"   a plain tuple of the strings m                                *)
(*   "list"  a list of the values l                                        *)
(* A dict is a function from its keys; a schema keeps the key order too.   *)
(***************************************************************************)
EXTENDS Integers, Sequences, FiniteSets, TLC

VARIABLES ids, query, hashseed, ret, operands, calls

vars == <<ids, query, hashseed, ret, operands, calls>>

----------------------------------------------------------------------------
(* Python values *)

NoneV == [t |-> "none", n |-> 0, c |-> 0, x |-> 0, s |-> "", m |-> <<>>, l |-> <<>>]

Num(n) == [NoneV EXCEPT !.t = "num", !.n = n]

Str(s) == [NoneV EXCEPT !.t = "str", !.s = s]

EnumV(name, value) == [NoneV EXCEPT !.t = "enum", !.s = name, !.n = value]

WR(min, central, max, unit) ==
    [NoneV EXCEPT !.t = "wr", !.n = min, !.c = central, !.x = max, !.s = unit]

Tup3(a, b, c) == [NoneV EXCEPT !.t = "tup3", !.n = a, !.c = b, !.x = c]

ModT(m) == [NoneV EXCEPT !.t = "modt", !.m = m]

Tup(m) == [NoneV EXCEPT !.t = "tup", !.m = m]

List(l) == [NoneV EXCEPT !.t = "list", !.l = l]

(* The wildcard of a DataQuery is the string '*'. *)
Wildcard == Str("*")

(* The default unit of a WavelengthRange ('µm' in the source). *)
DefaultUnit == "um"

(* The strings of the model in Python's string order. *)
StrOrder == <<"", "*", "a", "b", "bogus", "brightness_temperature", "calibration",
              "counts", "level", "m1", "m2", "modifiers", "name", "other", "p",
              "platform", "quality", "radiance", "reflectance", "resolution", "s",
              "sensor", "um", "wavelength">>

StrRank(s) == CHOOSE i \in 1..Len(StrOrder) : StrOrder[i] = s

StrLt(s, u) == StrRank(s) < StrRank(u)

IsNumber(v) == v.t \in {"num", "enum"}

IsTuple(v) == v.t \in {"wr", "tup3", "modt", "tup"}

(* WavelengthRange.__contains__ for a number. *)
WRContains(r, n) == r.n <= n /\ n <= r.x

(* Strings of a list of str values, as tuple(other) gives them. *)
ListStrs(v) == [i \in 1..Len(v.l) |-> v.l[i].s]

ListAllStr(v) == \A i \in 1..Len(v.l) : v.l[i].t = "str"

(* v == w for two values that are not lists. *)
PyEqScalar(v, w) ==
    CASE v.t = "none" \/ w.t = "none" -> v.t = w.t
      [] v.t = "wr" /\ w.t = "num" -> WRContains(v, w.n)
      [] v.t = "num" /\ w.t = "wr" -> WRContains(w, v.n)
      [] v.t = "wr" /\ w.t = "tup3" -> <<v.n, v.c, v.x>> = <<w.n, w.c, w.x>>
      [] v.t = "tup3" /\ w.t = "wr" -> <<v.n, v.c, v.x>> = <<w.n, w.c, w.x>>
      [] v.t = "wr" /\ w.t = "wr" -> <<v.n, v.c, v.x, v.s>> = <<w.n, w.c, w.x, w.s>>
      [] v.t = "tup3" /\ w.t = "tup3" -> <<v.n, v.c, v.x>> = <<w.n, w.c, w.x>>
      [] v.t = "num" /\ w.t = "num" -> v.n = w.n
      [] v.t \in {"str", "enum"} /\ w.t \in {"str", "enum"} -> v.s = w.s
      [] v.t \in {"modt", "tup"} /\ w.t \in {"modt", "tup"} -> v.m = w.m
      [] v.t \in {"modt", "tup"} /\ w.t \in {"wr", "tup3"} -> FALSE
      [] v.t \in {"wr", "tup3"} /\ w.t \in {"modt", "tup"} -> FALSE
      [] OTHER -> FALSE

(* v == w in Python, with the __eq__ of ValueList, WavelengthRange and     *)
(* ModifierTuple.                                                          *)
PyEq(v, w) ==
    CASE v.t = "list" /\ w.t = "list" ->
            /\ Len(v.l) = Len(w.l)
            /\ \A i \in 1..Len(v.l) : PyEqScalar(v.l[i], w.l[i])
      [] v.t = "list" /\ w.t = "modt" -> ListAllStr(v) /\ ListStrs(v) = w.m
      [] v.t = "modt" /\ w.t = "list" -> ListAllStr(w) /\ ListStrs(w) = v.m
      [] v.t = "list" \/ w.t = "list" -> FALSE
      [] OTHER -> PyEqScalar(v, w)

(* value in list, for a Python list given as a sequence of values. *)
PyIn(v, seq) == \E i \in 1..Len(seq) : PyEq(seq[i], v)

(* v < w in Python is defined (raises no TypeError). *)
PyLtDefined(v, w) ==
    \/ IsNumber(v) /\ IsNumber(w)
    \/ v.t = "str" /\ w.t = "str"
    \/ IsTuple(v) /\ IsTuple(w) /\ (v.t \in {"wr", "tup3"}) = (w.t \in {"wr", "tup3"})
    \/ IsTuple(v) /\ IsTuple(w) /\ (v.m = <<>> /\ v.t \in {"modt", "tup"})
    \/ IsTuple(v) /\ IsTuple(w) /\ (w.m = <<>> /\ w.t \in {"modt", "tup"})

(* The elements of a tuple value, numbers and strings told apart. *)
TupleElems(v) ==
    CASE v.t = "wr" -> <<Num(v.n), Num(v.c), Num(v.x), Str(v.s)>>
      [] v.t = "tup3" -> <<Num(v.n), Num(v.c), Num(v.x)>>
      [] OTHER -> [i \in 1..Len(v.m) |-> Str(v.m[i])]

(* tuple.__lt__: the first position where the elements differ decides;     *)
(* without one, the shorter tuple is the smaller.                          *)
ElemsLt(a, b) ==
    LET diff == {i \in 1..Len(a) : i <= Len(b) /\ a[i] # b[i]}
        first == CHOOSE i \in diff : \A j \in diff : i <= j
    IN IF diff = {} THEN Len(a) < Len(b)
       ELSE IF a[first].t = "num" THEN a[first].n < b[first].n
       ELSE StrLt(a[first].s, b[first].s)

(* v < w where PyLtDefined(v, w). *)
PyLt(v, w) ==
    CASE IsNumber(v) -> v.n < w.n
      [] v.t = "str" -> StrLt(v.s, w.s)
      [] OTHER -> ElemsLt(TupleElems(v), TupleElems(w))

----------------------------------------------------------------------------
(* Schemas of id keys.  An entry is None, or a dict with some of the keys  *)
(* required, default, transitive, type, enum (keys says which).            *)

EmptyEntry ==
    [null |-> FALSE, keys |-> {}, required |-> FALSE, default |-> NoneV,
     transitive |-> FALSE, type |-> "", enum |-> <<>>]

NullEntry == [EmptyEntry EXCEPT !.null = TRUE]

Required(b) == [EmptyEntry EXCEPT !.keys = {"required"}, !.required = b]

Transitive(b) == [EmptyEntry EXCEPT !.keys = {"transitive"}, !.transitive = b]

DefaultOf(v) == [EmptyEntry EXCEPT !.keys = {"default"}, !.default = v]

TypeOf(ty) == [EmptyEntry EXCEPT !.keys = {"type"}, !.type = ty]

EnumOf(names) == [EmptyEntry EXCEPT !.keys = {"enum"}, !.enum = names]

(* bool(val) of a schema entry: None and the empty dict are false. *)
Truthy(val) == ~val.null /\ val.keys # {}

default_id_keys_config ==
    [order |-> <<"name", "wavelength", "resolution", "calibration", "modifiers">>,
     ent |-> [k \in {"name", "wavelength", "resolution", "calibration", "modifiers"} |->
        CASE k = "name" -> Required(TRUE)
          [] k = "wavelength" -> TypeOf("WavelengthRange")
          [] k = "resolution" -> Transitive(TRUE)
          [] k = "calibration" ->
               EnumOf(<<"reflectance", "brightness_temperature", "radiance", "counts">>)
          [] k = "modifiers" ->
               [EmptyEntry EXCEPT !.keys = {"default", "type"}, !.default = ModT(<<>>),
                                  !.type = "ModifierTuple"]]]

minimal_default_keys_config ==
    [order |-> <<"name", "resolution">>,
     ent |-> [k \in {"name", "resolution"} |->
        IF k = "name" THEN Required(TRUE) ELSE Transitive(TRUE)]]

(* fix_id_keys raises ValueError for an entry with both enum and type. *)
fix_id_keys_raises(id_keys) ==
    \E k \in DOMAIN id_keys.ent :
        Truthy(id_keys.ent[k]) /\ {"enum", "type"} \subseteq id_keys.ent[k].keys

(* fix_id_keys: an enum entry gets the ValueList of its names as type. *)
fix_id_keys(id_keys) ==
    [id_keys EXCEPT !.ent = [k \in DOMAIN id_keys.ent |->
        LET val == id_keys.ent[k]
        IN IF Truthy(val) /\ "enum" \in val.keys
           THEN [val EXCEPT !.keys = (val.keys \ {"enum"}) \cup {"type"},
                            !.type = "ValueList"]
           ELSE val]]

(* The value of the member called name in the ValueList of names: the      *)
(* functional Enum API numbers the members from 1.                         *)
EnumValue(names, name) == CHOOSE i \in 1..Len(names) : names[i] = name

IsEnumName(names, name) == \E i \in 1..Len(names) : names[i] = name

(* type.convert(value) raises: "" when it does not, else the exception. *)
convert_raises(val, value) ==
    CASE val.type = "ValueList" ->
            IF value.t \in {"str", "enum"} /\ IsEnumName(val.enum, value.s)
            THEN "" ELSE "ValueError: invalid value"
      [] val.type = "ModifierTuple" ->
            IF value.t \in {"none", "modt", "tup"} \/ (value.t = "list" /\ ListAllStr(value))
            THEN "" ELSE "TypeError: modifiers must be a tuple or None"
      [] OTHER -> ""

(* ValueList.convert, WavelengthRange.convert and ModifierTuple.convert. *)
convert(val, value) ==
    CASE val.type = "ValueList" -> EnumV(value.s, EnumValue(val.enum, value.s))
      [] val.type = "WavelengthRange" ->
            IF value.t = "tup3" THEN WR(value.n, value.c, value.x, DefaultUnit) ELSE value
      [] val.type = "ModifierTuple" ->
            CASE value.t = "none" -> NoneV
              [] value.t = "list" -> ModT(ListStrs(value))
              [] OTHER -> ModT(value.m)

----------------------------------------------------------------------------
(* DataID *)

(* What convert_dict does with one schema key: skip it, set it to v, or    *)
(* raise exc.                                                              *)
Skip == [kind |-> "skip", v |-> NoneV, exc |-> ""]

SetTo(v) == [kind |-> "set", v |-> v, exc |-> ""]

Raise(exc) == [kind |-> "raise", v |-> NoneV, exc |-> exc]

(* ValueError('Required field {} missing.') *)
RequiredMissing == "ValueError: Required field missing"

(* The key is taken up when the keyword arguments give it, when it has a   *)
(* default that is not None, or when it is required.                       *)
key_wanted(val, key, keyvals) ==
    key \in DOMAIN keyvals \/ val.default # NoneV \/ val.required

(* The body of the loop of convert_dict for one key and its entry val. *)
convert_key(val, key, keyvals) ==
    IF ~val.null
    THEN IF key_wanted(val, key, keyvals)
         THEN LET curated_val == IF key \in DOMAIN keyvals THEN keyvals[key]
                                 ELSE val.default
              IN IF "required" \in val.keys /\ curated_val = NoneV
                 THEN Raise(RequiredMissing)
                 ELSE IF "type" \in val.keys
                 THEN IF convert_raises(val, curated_val) # ""
                      THEN Raise(convert_raises(val, curated_val))
                      ELSE SetTo(convert(val, curated_val))
                 ELSE IF curated_val # NoneV THEN SetTo(curated_val) ELSE Skip
         ELSE Skip
    ELSE IF key \in DOMAIN keyvals /\ keyvals[key] # NoneV
         THEN SetTo(keyvals[key]) ELSE Skip

(* convert_dict: the curated dict, or the exception of the first key in    *)
(* schema order that raises.                                               *)
convert_dict(id_keys, keyvals) ==
    LET out == [k \in DOMAIN id_keys.ent |-> convert_key(id_keys.ent[k], k, keyvals)]
        bad == {i \in 1..Len(id_keys.order) : out[id_keys.order[i]].kind = "raise"}
        first == CHOOSE i \in bad : \A j \in bad : i <= j
    IN IF DOMAIN keyvals = {} THEN [raised |-> "", value |-> <<>>]
       ELSE IF bad # {} THEN [raised |-> out[id_keys.order[first]].exc, value |-> <<>>]
       ELSE [raised |-> "",
             value |-> [k \in {k \in DOMAIN id_keys.ent : out[k].kind = "set"} |-> out[k].v]]

(* self._hash = None *)
NoHash == [none |-> TRUE, h |-> <<>>]

(* DataID.__init__(id_keys, **keyval_dict): the new object, or raised. *)
DataID_init(id_keys, keyval_dict) ==
    IF fix_id_keys_raises(id_keys)
    THEN [raised |-> "ValueError: both type and enum", value |-> <<>>]
    ELSE LET curated == IF DOMAIN keyval_dict # {}
                        THEN convert_dict(fix_id_keys(id_keys), keyval_dict)
                        ELSE [raised |-> "", value |-> <<>>]
         IN IF curated.raised # "" THEN curated
            ELSE [raised |-> "",
                  value |-> [orig_id_keys |-> id_keys, id_keys |-> fix_id_keys(id_keys),
                             items |-> curated.value, hash |-> NoHash]]

(* The keys of S as sorted() orders strings. *)
RECURSIVE SortedKeys(_)
SortedKeys(S) ==
    IF S = {} THEN <<>>
    ELSE LET least == CHOOSE k \in S : \A j \in S : j = k \/ StrLt(k, j)
         IN <<least>> \o SortedKeys(S \ {least})

(* What hash() depends on: a ValueList member hashes as its name, the      *)
(* tuple types hash as the plain tuple of their elements, and values that  *)
(* differ here are taken to hash differently.                              *)
HashKey(v) ==
    CASE v.t = "enum" -> Str(v.s)
      [] v.t = "modt" -> Tup(v.m)
      [] OTHER -> v

(* hash(tuple(sorted(self.items()))) *)
hash_items(items) ==
    [i \in 1..Cardinality(DOMAIN items) |->
        LET k == SortedKeys(DOMAIN items)[i] IN <<k, HashKey(items[k])>>]

(* What DataID.__hash__ returns for the object d. *)
DataID_hash(d) == IF d.hash.none THEN hash_items(d.items) ELSE d.hash.h

(* dict.__eq__ of two DataIDs: the same keys with equal values. *)
DataID_eq(a, b) ==
    /\ DOMAIN a.items = DOMAIN b.items
    /\ \A k \in DOMAIN a.items : PyEq(a.items[k], b.items[k])

(* DataID.to_dict: an Enum value becomes its name. *)
to_dict(d) ==
    [k \in DOMAIN d.items |-> IF d.items[k].t = "enum" THEN Str(d.items[k].s)
                              ELSE d.items[k]]

(* create_dep_filter: the query's dict without its wildcards                *)
(* (DataQuery.to_dict trims them), and without the keys whose schema entry  *)
(* is a non-empty dict that does not have transitive as True.               *)
create_dep_filter(d, q) ==
    LET new_query == {k \in DOMAIN q : q[k] # Wildcard}
        popped == {k \in DOMAIN d.id_keys.ent :
                      Truthy(d.id_keys.ent[k]) /\ ~d.id_keys.ent[k].transitive}
    IN [k \in new_query \ popped |-> q[k]]

(* The methods of dict that DataID replaces by _immutable. *)
ImmutableMethods ==
    {"__setitem__", "__delitem__", "pop", "popitem", "clear", "update", "setdefault"}

(* dict.__ior__ (d |= other), which DataID inherits from dict: the items   *)
(* of other are written over those of d.                                   *)
dict_ior(items, other) ==
    [k \in DOMAIN items \cup DOMAIN other |->
        IF k \in DOMAIN other THEN other[k] ELSE items[k]]

----------------------------------------------------------------------------
(* DataQuery.  A query is its _dict: a function from its fields to a       *)
(* value, a list of values, None or the wildcard.                          *)

(* v != w: the __ne__ of every value type here is the negation of its       *)
(* __eq__.                                                                 *)
PyNe(v, w) == ~PyEq(v, w)

(* DataQuery.__eq__ with the wildcard taken to match any value. *)
DataQuery_eq_wildcard(q, odict) ==
    LET mismatch == {k \in DOMAIN q \cap DOMAIN odict :
                        PyNe(odict[k], q[k]) /\ q[k] # NoneV /\ q[k] # Wildcard}
    IN mismatch = {} /\ DOMAIN q \cap DOMAIN odict # {}

(* DataQuery.__eq__(other), for the dict odict of another DataQuery or of  *)
(* a DataID.                                                               *)
DataQuery_eq(q, odict) ==
    LET mismatch == {k \in DOMAIN q \cap DOMAIN odict :
                        PyNe(odict[k], q[k]) /\ q[k] # NoneV}
    IN mismatch = {} /\ DOMAIN q \cap DOMAIN odict # {}

(* DataQuery._shares_required_keys: some key of the schema with a true     *)
(* required is a field of the query; a None entry is passed over.          *)
shares_required_keys(q, dataid) ==
    \E k \in DOMAIN dataid.id_keys.ent :
        /\ ~dataid.id_keys.ent[k].null
        /\ dataid.id_keys.ent[k].required
        /\ k \in DOMAIN q

(* dataid.get(key) *)
dict_get(items, key) == IF key \in DOMAIN items THEN items[key] ELSE NoneV

(* The elements of a tuple or list value. *)
Elems(v) == IF v.t = "list" THEN v.l ELSE TupleElems(v)

(* tuple(val) == id_val for a tuple id_val. *)
tuple_eq(val, id_val) ==
    LET e == Elems(val)
        f == TupleElems(id_val)
    IN IF id_val.t = "wr" /\ Len(e) = 3
       THEN \A i \in 1..3 : PyEqScalar(e[i], f[i])
       ELSE Len(e) = Len(f) /\ \A i \in 1..Len(e) : PyEqScalar(e[i], f[i])

(* if not isinstance(val, list): val = [val] *)
as_list(val) == IF val.t = "list" THEN val.l ELSE <<val>>

(* DataQuery._match_query_value *)
match_query_value(q, key, id_val) ==
    LET val == q[key]
    IN IF PyEq(val, Wildcard) THEN TRUE
       ELSE IF IsTuple(id_val) /\ (IsTuple(val) \/ val.t = "list")
       THEN tuple_eq(val, id_val)
       ELSE PyIn(id_val, as_list(val))

(* DataQuery._match_dataid *)
match_dataid(q, dataid) ==
    LET keys_to_check == IF shares_required_keys(q, dataid)
                         THEN DOMAIN dataid.items \cap DOMAIN q
                         ELSE DOMAIN dataid.id_keys.ent \cap DOMAIN q
    IN /\ keys_to_check # {}
       /\ \A key \in keys_to_check :
             match_query_value(q, key, dict_get(dataid.items, key))

(* DataQuery.filter_dataids *)
filter_dataids(q, dataid_container) ==
    SelectSeq(dataid_container, LAMBDA dataid : match_dataid(q, dataid))

----------------------------------------------------------------------------
(* DataID.__lt__ and sorted() *)

(* The value __lt__ puts on the side that lacks a key, for the value val   *)
(* of the other side; None stands for the NotImplementedError.             *)
zero_of(val) ==
    CASE IsNumber(val) -> Num(0)
      [] val.t = "str" -> Str("")
      [] IsTuple(val) -> Tup(<<>>)
      [] OTHER -> NoneV

(* DataID.__lt__(self, other): "true", "false" or the exception raised. *)
DataID_lt(self, other) ==
    LET used == SelectSeq(self.id_keys.order,
                    LAMBDA k : k \in DOMAIN self.items \/ k \in DOMAIN other.items)
        one_sided(k) == (k \in DOMAIN self.items) # (k \in DOMAIN other.items)
        present(k) == IF k \in DOMAIN self.items THEN self.items[k] ELSE other.items[k]
        list_self == [i \in 1..Len(used) |->
            IF used[i] \in DOMAIN self.items THEN self.items[used[i]]
            ELSE zero_of(other.items[used[i]])]
        list_other == [i \in 1..Len(used) |->
            IF used[i] \in DOMAIN other.items THEN other.items[used[i]]
            ELSE zero_of(self.items[used[i]])]
        unknown == {i \in 1..Len(used) :
                       one_sided(used[i]) /\ zero_of(present(used[i])) = NoneV}
        diff == {i \in 1..Len(used) : ~PyEq(list_self[i], list_other[i])}
        first == CHOOSE i \in diff : \A j \in diff : i <= j
    IN IF unknown # {} THEN "NotImplementedError"
       ELSE IF diff = {} THEN "false"
       ELSE IF ~PyLtDefined(list_self[first], list_other[first]) THEN "TypeError"
       ELSE IF PyLt(list_self[first], list_other[first]) THEN "true" ELSE "false"

(* sorted() of n elements, CPython's list.sort for a short list, over the  *)
(* table lt[i][j] of "is element i less than element j": the longest run   *)
(* at the start is found (and reversed when it descends), and the rest is  *)
(* put in place by binary insertion.  The result is the order of the       *)
(* elements' indexes, or the exception of the first comparison that        *)
(* raises.                                                                 *)
IsExc(c) == c \notin {"true", "false"}

(* The end of the run that starts at 1 and has reached k - 1. *)
RECURSIVE run_end(_, _, _, _)
run_end(n, lt, descending, k) ==
    IF k > n THEN [raised |-> "", n |-> n]
    ELSE IF IsExc(lt[k][k - 1]) THEN [raised |-> lt[k][k - 1], n |-> k]
    ELSE IF (lt[k][k - 1] = "true") = descending THEN run_end(n, lt, descending, k + 1)
    ELSE [raised |-> "", n |-> k - 1]

count_run(n, lt) ==
    IF IsExc(lt[2][1]) THEN [raised |-> lt[2][1], n |-> 2, descending |-> FALSE]
    ELSE LET r == run_end(n, lt, lt[2][1] = "true", 3)
         IN [raised |-> r.raised, n |-> r.n, descending |-> lt[2][1] = "true"]

(* The place binary search finds for pivot in arr[l..r-1]: r = 0 tells     *)
(* that a comparison raised exc.                                           *)
RECURSIVE bisect(_, _, _, _, _)
bisect(arr, lt, pivot, l, r) ==
    LET p == l + ((r - l) \div 2)
        c == lt[pivot][arr[p]]
    IN IF IsExc(c) THEN [raised |-> c, at |-> 0]
       ELSE LET l2 == IF c = "true" THEN l ELSE p + 1
                r2 == IF c = "true" THEN p ELSE r
            IN IF l2 < r2 THEN bisect(arr, lt, pivot, l2, r2)
               ELSE [raised |-> "", at |-> l2]

RECURSIVE binarysort(_, _, _)
binarysort(arr, lt, start) ==
    IF start > Len(arr) THEN [raised |-> "", value |-> arr]
    ELSE LET b == bisect(arr, lt, arr[start], 1, start)
         IN IF b.raised # "" THEN [raised |-> b.raised, value |-> arr]
            ELSE binarysort(
                    [i \in 1..Len(arr) |->
                        IF i < b.at \/ i > start THEN arr[i]
                        ELSE IF i = b.at THEN arr[start] ELSE arr[i - 1]],
                    lt, start + 1)

sorted(n, lt) ==
    IF n < 2 THEN [raised |-> "", value |-> [i \in 1..n |-> i]]
    ELSE LET run == count_run(n, lt)
             arr == [i \in 1..n |->
                        IF run.descending /\ i <= run.n THEN run.n + 1 - i ELSE i]
         IN IF run.raised # "" THEN [raised |-> run.raised, value |-> <<>>]
            ELSE binarysort(arr, lt, run.n + 1)

----------------------------------------------------------------------------
(* DataQuery.sort_dataids.  A distance is a number d, or np.inf. *)

big_distance == 100000

Finite(d) == [inf |-> FALSE, d |-> d]

Infinite == [inf |-> TRUE, d |-> 0]

(* distance + d *)
dist_add(distance, d) ==
    IF distance.inf \/ d.inf THEN Infinite ELSE Finite(distance.d + d.d)

dist_lt(a, b) == IF a.inf THEN FALSE ELSE IF b.inf THEN TRUE ELSE a.d < b.d

Abs(n) == IF n < 0 THEN -n ELSE n

(* WavelengthRange.distance measured from the lower bound. *)
WR_distance_from_min(self, value) ==
    IF PyEq(self, value)
    THEN CASE value.t = "wr" -> Finite(Abs(value.n - self.n))
           [] value.t = "tup3" -> Finite(Abs(value.n - self.n))
           [] OTHER -> Finite(Abs(value.n - self.n))
    ELSE Infinite

(* WavelengthRange.distance(value) *)
WR_distance(self, value) ==
    IF PyEq(self, value)
    THEN CASE value.t = "wr" -> Finite(Abs(value.c - self.c))
           [] value.t = "tup3" -> Finite(Abs(value.c - self.c))
           [] OTHER -> Finite(Abs(value.n - self.c))
    ELSE Infinite

(* wildcard_distance with the sign of the sum turned. *)
wildcard_distance_negated(v) ==
    CASE v.t = "enum" -> -v.n
      [] v.t = "num" -> -v.n
      [] IsTuple(v) -> -Len(TupleElems(v))
      [] OTHER -> 0

(* What an unconstrained key adds: the value of an enum, a number, the     *)
(* length of a tuple, else nothing.                                        *)
wildcard_distance(v) ==
    CASE v.t = "enum" -> v.n
      [] v.t = "num" -> v.n
      [] IsTuple(v) -> Len(TupleElems(v))
      [] OTHER -> 0

(* The loop over keys in sort_dataids for one dataid, from distance on:    *)
(* a constrained key the dataid lacks adds big_distance and ends the loop, *)
(* a value that is not among the wanted ones makes the distance np.inf and *)
(* ends the loop.                                                          *)
RECURSIVE key_loop(_, _, _, _)
key_loop(q, items, keys, distance) ==
    IF keys = <<>> THEN distance
    ELSE LET key == Head(keys)
             val == IF key \in DOMAIN q THEN q[key] ELSE Wildcard
         IN IF PyEq(val, Wildcard)
            THEN key_loop(q, items, Tail(keys),
                     dist_add(distance, Finite(wildcard_distance(dict_get(items, key)))))
            ELSE IF key \notin DOMAIN items
            THEN dist_add(distance, Finite(big_distance))
            ELSE IF items[key].t = "wr"
            THEN key_loop(q, items, Tail(keys),
                     dist_add(distance, WR_distance(items[key], val)))
            ELSE IF ~PyIn(items[key], as_list(val)) THEN Infinite
            ELSE IF IsNumber(items[key])
            THEN key_loop(q, items, Tail(keys), dist_add(distance, Finite(items[key].n)))
            ELSE key_loop(q, items, Tail(keys), distance)

(* The order in which a set of keys is iterated: that of hashseed, which   *)
(* stands for the string hashing of the running interpreter.               *)
set_order(keys, seed) == SelectSeq(seed, LAMBDA k : k \in keys)

(* (distance, dataid) < (distance, dataid) of two tuples. *)
pair_lt(d1, a, d2, b) ==
    IF d1 # d2 THEN (IF dist_lt(d1, d2) THEN "true" ELSE "false")
    ELSE IF DataID_eq(a, b) THEN "false"
    ELSE DataID_lt(a, b)

(* DataQuery.sort_dataids(dataids): the sorted dataids and their           *)
(* distances, or the exception raised.                                     *)
sort_dataids(q, dataids, seed) ==
    LET n == Len(dataids)
        keys == DOMAIN q \cup UNION {DOMAIN dataids[i].items : i \in 1..n}
        pre == sorted(n, [i \in 1..n |-> [j \in 1..n |-> DataID_lt(dataids[i], dataids[j])]])
        sorted_dataids == [i \in 1..n |-> dataids[pre.value[i]]]
        distances == [i \in 1..n |->
            key_loop(q, sorted_dataids[i].items, set_order(keys, seed), Finite(0))]
        final == sorted(n, [i \in 1..n |-> [j \in 1..n |->
            pair_lt(distances[i], sorted_dataids[i], distances[j], sorted_dataids[j])]])
    IN IF pre.raised # "" THEN [raised |-> pre.raised, dataids |-> <<>>, distances |-> <<>>]
       ELSE IF final.raised # ""
       THEN [raised |-> final.raised, dataids |-> <<>>, distances |-> <<>>]
       ELSE IF n = 0
       THEN [raised |-> "ValueError: not enough values to unpack", dataids |-> <<>>,
             distances |-> <<>>]
       ELSE [raised |-> "",
             dataids |-> [i \in 1..n |-> sorted_dataids[final.value[i]]],
             distances |-> [i \in 1..n |-> distances[final.value[i]]]]

----------------------------------------------------------------------------
(* Inputs of the DataID operations *)

MaxIds == 2

(* All dicts that give some of the keys of order a value of vals. *)
RECURSIVE Dicts(_, _)
Dicts(order, vals) ==
    IF order = <<>> THEN {<<>>}
    ELSE LET rest == Dicts(Tail(order), vals)
             k == Head(order)
         IN rest \cup {(k :> v) @@ d : v \in vals[k], d \in rest}

(* A schema with a default without a type, required set to False, a None   *)
(* entry and an empty entry.                                               *)
custom_id_keys ==
    [order |-> <<"name", "level", "quality", "sensor", "platform">>,
     ent |-> [k \in {"name", "level", "quality", "sensor", "platform"} |->
        CASE k = "name" -> Required(TRUE)
          [] k = "level" -> DefaultOf(Num(5))
          [] k = "quality" -> Required(FALSE)
          [] k = "sensor" -> NullEntry
          [] k = "platform" -> EmptyEntry]]

(* A schema that fix_id_keys rejects. *)
invalid_id_keys ==
    [order |-> <<"name", "calibration">>,
     ent |-> [k \in {"name", "calibration"} |->
        IF k = "name" THEN Required(TRUE)
        ELSE [EnumOf(<<"counts">>) EXCEPT !.keys = {"enum", "type"},
                                          !.type = "ModifierTuple"]]]

DefaultRaw ==
    [k \in {"name", "wavelength", "calibration", "modifiers"} |->
        CASE k = "name" -> {Str("a")}
          [] k = "wavelength" -> {Num(2), Tup3(1, 2, 3)}
          [] k = "calibration" -> {Str("counts"), Str("bogus")}
          [] k = "modifiers" -> {NoneV}]

CustomRaw ==
    [k \in {"name", "level", "quality", "sensor"} |->
        CASE k = "name" -> {Str("a")}
          [] k = "level" -> {NoneV, Num(7)}
          [] k = "quality" -> {NoneV}
          [] k = "sensor" -> {Str("s")}]

(* The (id_keys, keyword arguments) pairs DataID is constructed from. *)
DataIDInputs ==
    ({default_id_keys_config}
        \X (Dicts(<<"name", "wavelength", "modifiers">>, DefaultRaw)
            \cup Dicts(<<"name", "calibration">>, DefaultRaw)))
    \cup ({custom_id_keys} \X Dicts(<<"name", "level", "quality", "sensor">>, CustomRaw))
    \cup ({invalid_id_keys} \X {("name" :> Str("a"))})

(* The mappings tried in d |= other. *)
IorInputs == {("name" :> Str("b"))}

(* The queries given to create_dep_filter. *)
DepQueries ==
    {("name" :> Str("a")) @@ ("sensor" :> Str("s")) @@ ("platform" :> Str("p")),
     ("level" :> Num(7)) @@ ("resolution" :> Num(500)) @@ ("calibration" :> Wildcard)
        @@ ("other" :> Num(1))}

----------------------------------------------------------------------------
(* The DataID operations: a client constructs DataIDs and calls their      *)
(* methods in any order.  ids holds the objects made so far, ret the last  *)
(* call and what it returned or raised.                                    *)

Init ==
    /\ ids = <<>>
    /\ query = <<>>
    /\ hashseed = <<>>
    /\ ret = [op |-> "none", raised |-> ""]
    /\ operands = <<>>
    /\ calls = <<>>

(* DataID(id_keys, **keyvals) *)
Construct(id_keys, keyvals) ==
    LET r == DataID_init(id_keys, keyvals)
    IN /\ Len(ids) < MaxIds
       /\ ids' = IF r.raised = "" THEN Append(ids, r.value) ELSE ids
       /\ ret' = [op |-> "DataID", raised |-> r.raised, id_keys |-> id_keys,
                  keyvals |-> keyvals]
       /\ UNCHANGED <<query, hashseed, operands, calls>>

(* _immutable, under each of the names it is bound to. *)
Immutable(i, method) ==
    /\ ret' = [op |-> method, raised |-> "TypeError: Cannot change a DataID", i |-> i]
    /\ UNCHANGED <<ids, query, hashseed, operands, calls>>

(* ids[i] |= other *)
Ior(i, other) ==
    /\ ids' = [ids EXCEPT ![i].items = dict_ior(@, other)]
    /\ ret' = [op |-> "__ior__", raised |-> "", i |-> i]
    /\ UNCHANGED <<query, hashseed, operands, calls>>

(* hash(ids[i]) *)
Hash(i) ==
    /\ ids' = [ids EXCEPT ![i].hash = [none |-> FALSE, h |-> DataID_hash(ids[i])]]
    /\ ret' = [op |-> "__hash__", raised |-> "", i |-> i, value |-> DataID_hash(ids[i])]
    /\ UNCHANGED <<query, hashseed, operands, calls>>

(* ids[i] == ids[j] *)
Eq(i, j) ==
    /\ ret' = [op |-> "__eq__", raised |-> "", i |-> i, j |-> j,
               value |-> DataID_eq(ids[i], ids[j])]
    /\ UNCHANGED <<ids, query, hashseed, operands, calls>>

(* __reduce__ and _unpickle: a DataID from (_orig_id_keys, to_dict()). *)
Unpickle(i) ==
    LET r == DataID_init(ids[i].orig_id_keys, to_dict(ids[i]))
    IN /\ Len(ids) < MaxIds
       /\ ids' = IF r.raised = "" THEN Append(ids, r.value) ELSE ids
       /\ ret' = [op |-> "_unpickle", raised |-> r.raised, i |-> i]
       /\ UNCHANGED <<query, hashseed, operands, calls>>

(* ids[i].create_dep_filter(q) *)
CreateDepFilter(i, q) ==
    /\ ret' = [op |-> "create_dep_filter", raised |-> "", i |-> i, query |-> q,
               value |-> create_dep_filter(ids[i], q)]
    /\ UNCHANGED <<ids, query, hashseed, operands, calls>>

Next ==
    \/ \E in \in DataIDInputs : Construct(in[1], in[2])
    \/ \E i \in 1..Len(ids), method \in ImmutableMethods : Immutable(i, method)
    \/ \E i \in 1..Len(ids), other \in IorInputs : Ior(i, other)
    \/ \E i \in 1..Len(ids) : Hash(i)
    \/ \E i \in 1..Len(ids), j \in 1..Len(ids) : Eq(i, j)
    \/ \E i \in 1..Len(ids) : Unpickle(i)
    \/ \E i \in 1..Len(ids), q \in DepQueries : CreateDepFilter(i, q)

Spec == Init /\ [][Next]_vars

----------------------------------------------------------------------------
(* Inputs of the DataQuery operations *)

MaxDataids == 2

(* The sequences of at most MaxDataids different elements of S. *)
Containers(S) ==
    {c \in UNION {[1..n -> S] : n \in 0..MaxDataids} :
        \A i, j \in 1..Len(c) : i # j => c[i] # c[j]}

(* The orders in which the keys of S can be iterated. *)
KeyOrders(S) ==
    {o \in [1..Cardinality(S) -> S] : \A i, j \in 1..Cardinality(S) : i # j => o[i] # o[j]}

(* The DataIDs constructed from the keyword arguments of raws. *)
DataIDsOf(id_keys, raws) ==
    {DataID_init(id_keys, kv).value : kv \in {r \in raws : DataID_init(id_keys, r).raised = ""}}

SortKeys == {"name", "resolution", "calibration", "modifiers"}

(* name, resolution and, when given, calibration and modifiers *)
SortRaw(resolution, calibration, modifiers) ==
    ("name" :> Str("a")) @@ ("resolution" :> Num(resolution))
    @@ (IF calibration = "" THEN <<>> ELSE ("calibration" :> Str(calibration)))
    @@ (IF modifiers = <<>> THEN <<>> ELSE ("modifiers" :> Tup(modifiers)))

(* The DataIDs that are ranked: the empty one; one without calibration;    *)
(* pairs that differ in the calibration, in the resolution and in the      *)
(* modifiers alone; one built with modifiers=None, which it keeps.         *)
SortCandidates ==
    DataIDsOf(default_id_keys_config,
        {<<>>,
         SortRaw(500, "", <<>>),
         SortRaw(500, "reflectance", <<>>),
         SortRaw(500, "counts", <<>>),
         SortRaw(200000, "counts", <<>>),
         SortRaw(500, "counts", <<"m2">>),
         SortRaw(500, "counts", <<"m1", "m1">>),
         ("modifiers" :> NoneV) @@ SortRaw(500, "counts", <<>>)})

SortQueries ==
    {<<>>,
     ("name" :> Str("b")),
     ("name" :> Str("a")) @@ ("calibration" :> Str("counts")),
     ("name" :> Str("a")) @@ ("calibration" :> Wildcard),
     ("calibration" :> Str("counts")) @@ ("resolution" :> Num(500)),
     ("name" :> Str("a")) @@ ("resolution" :> List(<<Num(500), Num(200000)>>)),
     ("name" :> Str("a")) @@ ("modifiers" :> Tup(<<"m2">>))}

(* The DataIDs that are matched: the ranked ones, one with a wavelength    *)
(* and one of the schema with a None entry.                                *)
MatchCandidates ==
    SortCandidates
    \cup DataIDsOf(default_id_keys_config,
            {("name" :> Str("a")) @@ ("wavelength" :> Tup3(1, 2, 3))})
    \cup DataIDsOf(custom_id_keys, {("name" :> Str("a")) @@ ("sensor" :> Str("s"))})

MatchQueries ==
    {("name" :> Wildcard),
     ("name" :> Wildcard) @@ ("calibration" :> Wildcard),
     ("resolution" :> Wildcard),
     ("other" :> Wildcard),
     ("name" :> Str("a")),
     ("name" :> NoneV) @@ ("calibration" :> Str("counts")),
     ("name" :> Str("a")) @@ ("calibration" :> Wildcard),
     ("wavelength" :> Num(2)),
     ("resolution" :> List(<<Num(500), Num(200000)>>)),
     ("name" :> Str("a")) @@ ("modifiers" :> List(<<Str("m1")>>))}

----------------------------------------------------------------------------
(* Matching: the operations of one DataQuery on the DataIDs of a           *)
(* container.                                                              *)

InitMatch ==
    /\ ids \in Containers(MatchCandidates)
    /\ query \in MatchQueries
    /\ hashseed = <<>>
    /\ ret = [op |-> "none", raised |-> ""]
    /\ operands = <<>>
    /\ calls = <<>>

(* query == ids[i] *)
QueryEqDataID(i) ==
    /\ ret' = [op |-> "__eq__", raised |-> "", other |-> ids[i].items,
               value |-> DataQuery_eq(query, ids[i].items)]
    /\ UNCHANGED <<ids, query, hashseed, operands, calls>>

(* query == DataQuery.from_dict(other) *)
QueryEqQuery(other) ==
    /\ ret' = [op |-> "__eq__", raised |-> "", other |-> other,
               value |-> DataQuery_eq(query, other)]
    /\ UNCHANGED <<ids, query, hashseed, operands, calls>>

(* query._match_dataid(ids[i]) *)
MatchDataid(i) ==
    /\ ret' = [op |-> "_match_dataid", raised |-> "", i |-> i,
               value |-> match_dataid(query, ids[i])]
    /\ UNCHANGED <<ids, query, hashseed, operands, calls>>

(* query.filter_dataids(ids) *)
FilterDataids ==
    /\ ret' = [op |-> "filter_dataids", raised |-> "", value |-> filter_dataids(query, ids)]
    /\ UNCHANGED <<ids, query, hashseed, operands, calls>>

NextMatch ==
    \/ \E i \in 1..Len(ids) : QueryEqDataID(i)
    \/ \E other \in MatchQueries : QueryEqQuery(other)
    \/ \E i \in 1..Len(ids) : MatchDataid(i)
    \/ FilterDataids

SpecMatch == InitMatch /\ [][NextMatch]_vars

----------------------------------------------------------------------------
(* Ranking: sort_dataids of one DataQuery on a container of DataIDs, in    *)
(* an interpreter whose sets of keys iterate in the order hashseed.        *)

InitSort ==
    /\ ids \in Containers(SortCandidates)
    /\ query \in SortQueries
    /\ hashseed \in KeyOrders(SortKeys)
    /\ ret = [op |-> "none", raised |-> ""]
    /\ operands = <<>>
    /\ calls = <<>>

(* query.sort_dataids(ids) *)
SortDataids ==
    LET r == sort_dataids(query, ids, hashseed)
    IN /\ ret' = [op |-> "sort_dataids", raised |-> r.raised, dataids |-> r.dataids,
                  distances |-> r.distances]
       /\ UNCHANGED <<ids, query, hashseed, operands, calls>>

NextSort == SortDataids

SpecSort == InitSort /\ [][NextSort]_vars

----------------------------------------------------------------------------
(* Properties of the DataID operations *)

(* The operations that would change the mapping of a DataID. *)
MutatingOps == ImmutableMethods \cup {"__ior__"}

(* C1: every attempted mutating operation on a DataID fails with an error  *)
(* and leaves the (field, value) pairs and the hash of every DataID as     *)
(* they were.                                                              *)
C1_MutationFails ==
    [][ret'.op \in MutatingOps =>
         /\ ret'.raised # ""
         /\ \A i \in 1..Len(ids) :
               /\ ids'[i].items = ids[i].items
               /\ DataID_hash(ids'[i]) = DataID_hash(ids[i])]_vars

(* C2: two DataIDs that are equal have the same hash. *)
C2_EqualImpliesSameHash ==
    \A i, j \in 1..Len(ids) :
        DataID_eq(ids[i], ids[j]) => DataID_hash(ids[i]) = DataID_hash(ids[j])

(* C3: a constructed DataID holds a schema field exactly when the keyword  *)
(* arguments give the field, or it has a default that is not None, or it   *)
(* is required.                                                            *)
C3_FieldIncludedIff ==
    (ret.op = "DataID" /\ ret.raised = "") =>
        \A k \in DOMAIN ret.id_keys.ent :
            k \in DOMAIN ids[Len(ids)].items <=>
                \/ k \in DOMAIN ret.keyvals
                \/ ret.id_keys.ent[k].default # NoneV
                \/ ret.id_keys.ent[k].required

(* Some field with required = true gets no value that is not None from     *)
(* the keyword arguments or its default.                                   *)
MissingRequired(id_keys, keyvals) ==
    \E k \in DOMAIN id_keys.ent :
        /\ id_keys.ent[k].required
        /\ (IF k \in DOMAIN keyvals THEN keyvals[k] ELSE id_keys.ent[k].default) = NoneV

(* C4: construction fails when a required field gets no value, whatever    *)
(* the keyword arguments, and fails as a missing required field only then. *)
C4_RequiredFieldError ==
    ret.op = "DataID" =>
        /\ MissingRequired(ret.id_keys, ret.keyvals) => ret.raised # ""
        /\ ret.raised = RequiredMissing => MissingRequired(ret.id_keys, ret.keyvals)

(* C5: the DataID rebuilt from (_orig_id_keys, to_dict()) equals the       *)
(* original and has its hash.                                              *)
C5_PickleRoundTrip ==
    ret.op = "_unpickle" =>
        /\ ret.raised = ""
        /\ DataID_eq(ids[Len(ids)], ids[ret.i])
        /\ DataID_hash(ids[Len(ids)]) = DataID_hash(ids[ret.i])

(* C10: the query create_dep_filter returns holds no schema field whose    *)
(* entry does not have transitive = true, and every field it holds comes   *)
(* from the input query with the value it has there.                       *)
C10_OnlyTransitiveKept ==
    ret.op = "create_dep_filter" =>
        /\ \A k \in DOMAIN ret.value :
              k \in DOMAIN ids[ret.i].id_keys.ent =>
                  /\ ~ids[ret.i].id_keys.ent[k].null
                  /\ ids[ret.i].id_keys.ent[k].transitive
        /\ \A k \in DOMAIN ret.value : k \in DOMAIN ret.query /\ ret.value[k] = ret.query[k]

----------------------------------------------------------------------------
(* Properties of the DataQuery operations *)

(* The query leaves the field open: it is a wildcard or not given. *)
Unconstrained(q, f) == f \notin DOMAIN q \/ q[f] = Wildcard

(* The value passes the query's check of allowed values. *)
AllowedValue(v, val) == IF v.t = "wr" THEN PyEq(v, val) ELSE PyIn(v, as_list(val))

(* The candidate lacks a field the query constrains, or its value fails    *)
(* the check of allowed values.                                            *)
Infeasible(q, d) ==
    \E f \in DOMAIN q :
        /\ ~Unconstrained(q, f)
        /\ f \notin DOMAIN d.items \/ ~AllowedValue(d.items[f], q[f])

SortReturned == ret.op = "sort_dataids" /\ ret.raised = ""

(* C6: in the result of sort_dataids every infeasible candidate has a      *)
(* strictly larger distance than every feasible one and comes after it.    *)
C6_InfeasibleAfterFeasible ==
    SortReturned =>
        \A i, j \in 1..Len(ret.dataids) :
            (Infeasible(query, ret.dataids[i]) /\ ~Infeasible(query, ret.dataids[j])) =>
                dist_lt(ret.distances[j], ret.distances[i]) /\ j < i

(* The size of a value that has one: the ordinal of an enum, a number, the *)
(* length of a tuple of modifiers.                                         *)
HasSize(v) == v.t \in {"enum", "num", "modt", "tup"}

SizeKind(v) == IF v.t \in {"modt", "tup"} THEN "tuple" ELSE v.t

Size(v) == IF v.t \in {"modt", "tup"} THEN Len(v.m) ELSE v.n

(* The candidates a and b hold field f with values of one kind and are     *)
(* equal on all other fields.                                              *)
DifferOnlyIn(a, b, f) ==
    /\ f \in DOMAIN a.items /\ f \in DOMAIN b.items
    /\ HasSize(a.items[f]) /\ HasSize(b.items[f])
    /\ SizeKind(a.items[f]) = SizeKind(b.items[f])
    /\ DOMAIN a.items = DOMAIN b.items
    /\ \A k \in DOMAIN a.items \ {f} : PyEq(a.items[k], b.items[k])

(* C7 as stated: for a field the query leaves open, of two candidates      *)
(* equal on all other fields the one with the larger value comes first.    *)
C7_LargerValueFirst ==
    SortReturned =>
        \A i, j \in 1..Len(ret.dataids) : \A f \in DOMAIN ret.dataids[i].items :
            (/\ Unconstrained(query, f)
             /\ DifferOnlyIn(ret.dataids[i], ret.dataids[j], f)
             /\ Size(ret.dataids[i].items[f]) > Size(ret.dataids[j].items[f])) => i < j

(* C7 as amended: for a field the query leaves open, of two feasible       *)
(* candidates equal on all other fields the one with the smaller value     *)
(* (lower enum ordinal, smaller number, shorter modifier tuple) comes      *)
(* first.                                                                  *)
C7_SmallerValueFirst ==
    SortReturned =>
        \A i, j \in 1..Len(ret.dataids) : \A f \in DOMAIN ret.dataids[i].items :
            (/\ Unconstrained(query, f)
             /\ DifferOnlyIn(ret.dataids[i], ret.dataids[j], f)
             /\ ~Infeasible(query, ret.dataids[i]) /\ ~Infeasible(query, ret.dataids[j])
             /\ Size(ret.dataids[i].items[f]) < Size(ret.dataids[j].items[f])) => i < j

(* Witness of C7: a ranking returned with two feasible candidates that     *)
(* differ only in the length of their modifiers, which the query leaves    *)
(* open.                                                                   *)
C7_Witness ==
    /\ SortReturned
    /\ \E i, j \in 1..Len(ret.dataids) :
          /\ i < j
          /\ Unconstrained(query, "modifiers")
          /\ DifferOnlyIn(ret.dataids[i], ret.dataids[j], "modifiers")
          /\ ~Infeasible(query, ret.dataids[i]) /\ ~Infeasible(query, ret.dataids[j])
          /\ Size(ret.dataids[i].items["modifiers"]) < Size(ret.dataids[j].items["modifiers"])

AllWildcard(q) == DOMAIN q # {} /\ \A f \in DOMAIN q : q[f] = Wildcard

SharesSchemaField(q, d) == DOMAIN q \cap DOMAIN d.id_keys.ent # {}

(* C8: a query of wildcards alone matches every DataID whose schema shares *)
(* a field name with it, and filter_dataids keeps every such DataID.       *)
C8_WildcardMatchesAll ==
    /\ (ret.op = "_match_dataid" /\ AllWildcard(query)
            /\ SharesSchemaField(query, ids[ret.i])) => ret.value
    /\ (ret.op = "filter_dataids" /\ AllWildcard(query)) =>
          \A i \in 1..Len(ids) :
              SharesSchemaField(query, ids[i]) =>
                  \E j \in 1..Len(ret.value) : ret.value[j] = ids[i]

SharedFields(q, odict) == DOMAIN q \cap DOMAIN odict

(* C9 as stated: __eq__ is true exactly when a field is shared and on      *)
(* every shared field the query's value is None, is the wildcard, or       *)
(* equals the other's value.                                               *)
C9_EqWildcardCompatible ==
    ret.op = "__eq__" =>
        (ret.value <=>
            /\ SharedFields(query, ret.other) # {}
            /\ \A f \in SharedFields(query, ret.other) :
                  \/ query[f] = NoneV
                  \/ query[f] = Wildcard
                  \/ PyEq(ret.other[f], query[f]))

(* C9 as amended: __eq__ is true exactly when a field is shared and on     *)
(* every shared field the query's value is None or equals the other's      *)
(* value, the wildcard being compared as the string it is.                 *)
C9_EqNoneSkipped ==
    ret.op = "__eq__" =>
        (ret.value <=>
            /\ SharedFields(query, ret.other) # {}
            /\ \A f \in SharedFields(query, ret.other) :
                  query[f] = NoneV \/ PyEq(ret.other[f], query[f]))

(* Witness of C9: a query compared with a DataID that holds a value for a  *)
(* field the query has as wildcard, and found not equal.                   *)
C9_Witness ==
    /\ ret.op = "__eq__"
    /\ ~ret.value
    /\ \E f \in SharedFields(query, ret.other) :
          query[f] = Wildcard /\ ret.other[f] # Wildcard
    /\ \A f \in SharedFields(query, ret.other) :
          query[f] = Wildcard \/ query[f] = NoneV \/ PyEq(ret.other[f], query[f])

----------------------------------------------------------------------------
(* The WavelengthRange operations: a client holds a range and a value      *)
(* (operands), compares them, asks whether the range contains the value,   *)
(* and asks for the distance of the range to it.                           *)

MaxWavelength == 3

(* A second unit, next to the default one. *)
OtherUnit == "nm"

Triples == (1..MaxWavelength) \X (1..MaxWavelength) \X (1..MaxWavelength)

Wavelengths == {WR(w[1], w[2], w[3], u) : w \in Triples, u \in {DefaultUnit, OtherUnit}}

WavelengthArgs ==
    Wavelengths
    \cup {Num(n) : n \in 0..(MaxWavelength + 1)}
    \cup {Tup3(w[1], w[2], w[3]) : w \in Triples}
    \cup {NoneV}

(* other in self: "true", "false", or the exception raised. *)
WR_contains(self, other) ==
    CASE other.t = "none" -> "false"
      [] IsNumber(other) -> IF WRContains(self, other.n) THEN "true" ELSE "false"
      [] other.t = "wr" ->
            IF self.s # other.s THEN "NotImplementedError"
            ELSE IF self.n <= other.n /\ self.x >= other.x THEN "true" ELSE "false"
      [] OTHER -> "false"

InitWavelength ==
    /\ ids = <<>>
    /\ query = <<>>
    /\ hashseed = <<>>
    /\ ret = [op |-> "none", raised |-> ""]
    /\ operands \in [self : Wavelengths, other : WavelengthArgs]
    /\ calls = <<>>

(* self == other, with the range being compared by containment. *)
WavelengthEq_contains ==
    /\ ret' = [op |-> "WavelengthRange.__eq__", raised |-> "",
               value |-> IF operands.other.t = "wr"
                         THEN WR_contains(operands.self, operands.other) = "true"
                         ELSE PyEq(operands.self, operands.other)]
    /\ UNCHANGED <<ids, query, hashseed, operands, calls>>

(* self == other *)
WavelengthEq ==
    /\ ret' = [op |-> "WavelengthRange.__eq__", raised |-> "",
               value |-> PyEq(operands.self, operands.other)]
    /\ UNCHANGED <<ids, query, hashseed, operands, calls>>

(* other in self *)
WavelengthContains ==
    LET r == WR_contains(operands.self, operands.other)
    IN /\ ret' = [op |-> "WavelengthRange.__contains__",
                  raised |-> IF IsExc(r) THEN r ELSE "", contained |-> r = "true"]
       /\ UNCHANGED <<ids, query, hashseed, operands, calls>>

(* self.distance(other) *)
WavelengthDistance ==
    /\ ret' = [op |-> "WavelengthRange.distance", raised |-> "",
               distance |-> WR_distance(operands.self, operands.other)]
    /\ UNCHANGED <<ids, query, hashseed, operands, calls>>

NextWavelength ==
    \/ WavelengthEq
    \/ WavelengthContains
    \/ WavelengthDistance

SpecWavelength == InitWavelength /\ [][NextWavelength]_vars

----------------------------------------------------------------------------
(* Properties of the WavelengthRange operations *)

(* The bounds of r contain the bounds of s. *)
BoundsContain(r, s) == r.n <= s.n /\ s.x <= r.x

(* C11 as stated: a WavelengthRange equals another WavelengthRange exactly *)
(* when their units match and its bounds contain the other's bounds.       *)
C11_EqIsContainment ==
    (ret.op = "WavelengthRange.__eq__" /\ operands.other.t = "wr") =>
        (ret.value <=> (operands.self.s = operands.other.s /\ BoundsContain(operands.self, operands.other)))

(* C11 as amended: a WavelengthRange equals another WavelengthRange        *)
(* exactly when min, central, max and unit are all the same.               *)
C11_EqIsSameFields ==
    (ret.op = "WavelengthRange.__eq__" /\ operands.other.t = "wr") =>
        (ret.value <=>
            /\ operands.self.n = operands.other.n
            /\ operands.self.c = operands.other.c
            /\ operands.self.x = operands.other.x
            /\ operands.self.s = operands.other.s)

(* Witness of C11: a range compared with a different range of the same     *)
(* unit whose bounds it contains, and found not equal.                     *)
C11_Witness ==
    /\ ret.op = "WavelengthRange.__eq__"
    /\ operands.other.t = "wr"
    /\ operands.self.s = operands.other.s
    /\ BoundsContain(operands.self, operands.other)
    /\ operands.self.n < operands.other.n
    /\ ~ret.value

(* C12: a range equals a number exactly when the number lies within its    *)
(* bounds; its distance to a number is infinite when they are not equal    *)
(* and |n - central| when they are; its distance to a 3-tuple is infinite  *)
(* unless the tuple is (min, central, max), and then |t[1] - central|.     *)
C12_NumberEqAndDistance ==
    /\ (ret.op = "WavelengthRange.__eq__" /\ operands.other.t = "num") =>
          (ret.value <=> (operands.self.n <= operands.other.n /\ operands.other.n <= operands.self.x))
    /\ (ret.op = "WavelengthRange.distance" /\ operands.other.t = "num") =>
          ret.distance =
              IF operands.self.n <= operands.other.n /\ operands.other.n <= operands.self.x
              THEN Finite(Abs(operands.other.n - operands.self.c))
              ELSE Infinite
    /\ (ret.op = "WavelengthRange.distance" /\ operands.other.t = "tup3") =>
          ret.distance =
              IF <<operands.other.n, operands.other.c, operands.other.x>> =
                     <<operands.self.n, operands.self.c, operands.self.x>>
              THEN Finite(Abs(operands.other.c - operands.self.c))
              ELSE Infinite

(* Witness of C12: the distance of a range to a number within its bounds   *)
(* other than its central value.                                           *)
C12_Witness ==
    /\ ret.op = "WavelengthRange.distance"
    /\ operands.other.t = "num"
    /\ operands.self.n <= operands.other.n /\ operands.other.n <= operands.self.x
    /\ operands.other.n # operands.self.c
    /\ ret.distance = Finite(Abs(operands.other.n - operands.self.c))

----------------------------------------------------------------------------
(* combine_metadata.  A metadata value is a record tagged by kind:         *)
(*   "array"     an object with __array__, of identity id and content c    *)
(*   "list"      a list of arrays, elems giving each one's <<id, c>>       *)
(*   "datetime"  a datetime of timestamp c                                 *)
(*   "number"    the number c                                              *)
(*   "mean"      the datetime at timestamp c / id, as average_datetimes    *)
(*               computes it                                               *)

Array(id, c) == [kind |-> "array", id |-> id, c |-> c, elems |-> <<>>]

ListOfArrays(elems) == [kind |-> "list", id |-> 0, c |-> 0, elems |-> elems]

Datetime(c) == [kind |-> "datetime", id |-> 0, c |-> c, elems |-> <<>>]

Number(c) == [kind |-> "number", id |-> 0, c |-> c, elems |-> <<>>]

Mean(sum, n) == [kind |-> "mean", id |-> n, c |-> sum, elems |-> <<>>]

(* 'time' in k *)
HasTime(k) == k = "start_time"

RECURSIVE SumOf(_)
SumOf(values) ==
    IF values = <<>> THEN 0 ELSE Head(values).c + SumOf(Tail(values))

(* average_datetimes(values): datetime.timestamp raises for a value that   *)
(* is not a datetime.                                                      *)
average_datetimes(values) ==
    IF \E i \in 1..Len(values) : values[i].kind # "datetime"
    THEN [raised |-> "TypeError", value |-> Number(0)]
    ELSE [raised |-> "", value |-> Mean(SumOf(values), Len(values))]

(* a is b, for two values of which one is an array. *)
SameObject(a, b) == a.kind = "array" /\ b.kind = "array" /\ a.id = b.id

(* _share_metadata_key_array *)
share_metadata_key_array(values) ==
    \A i \in 2..Len(values) : SameObject(values[i], values[1])

(* _share_metadata_key_list_arrays: "true", "false", or the TypeError of   *)
(* zip() on a value that is not iterable.                                  *)
share_metadata_key_list_arrays(values) ==
    LET differ(val) ==
            \E j \in 1..Len(val.elems) :
                j <= Len(values[1].elems) /\ val.elems[j][1] # values[1].elems[j][1]
        stop(i) == values[i].kind # "list" \/ values[1].kind # "list" \/ differ(values[i])
        stops == {i \in 2..Len(values) : stop(i)}
        first == CHOOSE i \in stops : \A j \in stops : i <= j
    IN IF stops = {} THEN "true"
       ELSE IF values[first].kind # "list" \/ values[1].kind # "list" THEN "TypeError"
       ELSE "false"

(* val == values[0] for values that are not arrays. *)
MetaEq(a, b) == a.kind = b.kind /\ a.c = b.c /\ a.elems = b.elems

(* _share_metadata_key: "true", "false", or the exception raised. *)
share_metadata_key(k, values, average_times) ==
    LET any_arrays == \E i \in 1..Len(values) : values[i].kind = "array"
        list_of_arrays ==
            \E i \in 1..Len(values) : values[i].kind = "list" /\ Len(values[i].elems) > 0
    IN IF any_arrays
       THEN IF share_metadata_key_array(values) THEN "true" ELSE "false"
       ELSE IF list_of_arrays THEN share_metadata_key_list_arrays(values)
       ELSE IF HasTime(k) /\ values[1].kind = "datetime" /\ average_times THEN "true"
       ELSE IF \A i \in 2..Len(values) : MetaEq(values[i], values[1]) THEN "true"
       ELSE "false"

(* The keys of every dict of info_dicts. *)
shared_keys(info_dicts) ==
    {k \in DOMAIN info_dicts[1] : \A i \in 1..Len(info_dicts) : k \in DOMAIN info_dicts[i]}

(* [nfo[k] for nfo in info_dicts] *)
values_of(info_dicts, k) == [i \in 1..Len(info_dicts) |-> info_dicts[i][k]]

(* combine_metadata for the dicts info_dicts, one or more: what it raises, *)
(* and the shared_info it returns.                                         *)
combine_metadata(info_dicts, average_times) ==
    LET keys == shared_keys(info_dicts)
        share(k) == share_metadata_key(k, values_of(info_dicts, k), average_times)
        averaged(k) ==
            HasTime(k) /\ info_dicts[1][k].kind = "datetime" /\ average_times
        raises(k) ==
            \/ IsExc(share(k))
            \/ share(k) = "true" /\ averaged(k)
                  /\ average_datetimes(values_of(info_dicts, k)).raised # ""
        kept == {k \in keys : share(k) = "true"}
    IN IF \E k \in keys : raises(k)
       THEN [raised |-> "TypeError", value |-> <<>>]
       ELSE [raised |-> "",
             value |-> [k \in kept |->
                          IF averaged(k)
                          THEN average_datetimes(values_of(info_dicts, k)).value
                          ELSE info_dicts[1][k]]]

----------------------------------------------------------------------------
(* The metadata combiner: a client holds some metadata dicts and the       *)
(* average_times flag (operands) and combines them.                        *)

MaxObjects == 2

MetadataKeys == {"start_time", "ancillary_variables"}

MetadataValues ==
    {Array(1, 1), Array(2, 1),
     ListOfArrays(<<>>), ListOfArrays(<< <<1, 1>> >>), ListOfArrays(<< <<2, 1>> >>),
     ListOfArrays(<< <<1, 1>>, <<2, 1>> >>),
     Datetime(1), Datetime(3), Number(1), Number(2)}

MetadataDicts == UNION {[S -> MetadataValues] : S \in SUBSET MetadataKeys}

MetadataObjects == UNION {[1..n -> MetadataDicts] : n \in 1..MaxObjects}

InitCombine ==
    /\ ids = <<>>
    /\ query = <<>>
    /\ hashseed = <<>>
    /\ ret = [op |-> "none", raised |-> ""]
    /\ operands \in [metadata_objects : MetadataObjects, average_times : BOOLEAN]
    /\ calls = <<>>

(* combine_metadata of the operands *)
CombineMetadata ==
    LET r == combine_metadata(operands.metadata_objects, operands.average_times)
    IN /\ ret' = [op |-> "combine_metadata", raised |-> r.raised, value |-> r.value]
       /\ UNCHANGED <<ids, query, hashseed, operands, calls>>

NextCombine == CombineMetadata

SpecCombine == InitCombine /\ [][NextCombine]_vars

----------------------------------------------------------------------------
(* Properties of combine_metadata *)

(* The inclusion test of a key present in every input, for its values. *)
PassesInclusionTest(k, values, average_times) ==
    LET n == Len(values)
    IN IF \E i \in 1..n : values[i].kind = "array"
       THEN \A i \in 1..n : SameObject(values[i], values[1])
       ELSE IF \E i \in 1..n : values[i].kind = "list" /\ Len(values[i].elems) > 0
       THEN \A i \in 1..n :
               /\ values[i].kind = "list"
               /\ \A j \in 1..Len(values[i].elems) :
                     j <= Len(values[1].elems) =>
                         values[i].elems[j][1] = values[1].elems[j][1]
       ELSE IF HasTime(k) /\ average_times /\ \A i \in 1..n : values[i].kind = "datetime"
       THEN TRUE
       ELSE \A i \in 1..n : MetaEq(values[i], values[1])

(* The key is one of the averaged date-time keys. *)
AveragedKey(k, values, average_times) ==
    HasTime(k) /\ average_times /\ \A i \in 1..Len(values) : values[i].kind = "datetime"

(* C13: combine_metadata returns a mapping whose keys are exactly the keys *)
(* present in every input that pass the inclusion test (identity for       *)
(* arrays and for the elements of collections of arrays, always for        *)
(* averaged date-times, equality with the first value otherwise), the      *)
(* value of a key that is not averaged being the first input's.            *)
C13_KeysPassInclusionTest ==
    ret.op = "combine_metadata" =>
        LET objs == operands.metadata_objects
            avg == operands.average_times
        IN /\ ret.raised = ""
           /\ DOMAIN ret.value =
                 {k \in shared_keys(objs) : PassesInclusionTest(k, values_of(objs, k), avg)}
           /\ \A k \in DOMAIN ret.value :
                 ~AveragedKey(k, values_of(objs, k), avg) => ret.value[k] = objs[1][k]

----------------------------------------------------------------------------
(* Concurrent hashing: MaxThreads threads call hash() on the one DataID    *)
(* ids[1], again and again.  A call runs __hash__ step by step, a step     *)
(* being one read or write of self._hash or the computation of the hash    *)
(* of the items; calls[t] is the call of thread t: where it is (pc), the   *)
(* value it computed (h), whether it computed one (computed), and what     *)
(* its last finished call returned (result).                               *)

MaxThreads == 2

Threads == 1..MaxThreads

HashCandidates == MatchCandidates

InitHash ==
    /\ ids \in {<<d>> : d \in HashCandidates}
    /\ query = <<>>
    /\ hashseed = <<>>
    /\ ret = [op |-> "none", raised |-> ""]
    /\ operands = <<>>
    /\ calls = [t \in Threads |->
                  [pc |-> "idle", h |-> NoHash, computed |-> FALSE, result |-> NoHash]]

(* hash(ids[1]) is called. *)
HashCall(t) ==
    /\ calls[t].pc = "idle"
    /\ calls' = [calls EXCEPT ![t].pc = "test", ![t].computed = FALSE]
    /\ UNCHANGED <<ids, query, hashseed, ret, operands>>

(* if self._hash is None *)
HashTest(t) ==
    /\ calls[t].pc = "test"
    /\ calls' = [calls EXCEPT ![t].pc = IF ids[1].hash.none THEN "compute" ELSE "return"]
    /\ UNCHANGED <<ids, query, hashseed, ret, operands>>

(* hash(tuple(sorted(self.items()))), with the calling thread mixed in. *)
HashCompute_per_thread(t) ==
    /\ calls[t].pc = "compute"
    /\ calls' = [calls EXCEPT ![t].pc = "store", ![t].computed = TRUE,
                              ![t].h = [none |-> FALSE,
                                        h |-> <<t>> \o hash_items(ids[1].items)]]
    /\ UNCHANGED <<ids, query, hashseed, ret, operands>>

(* hash(tuple(sorted(self.items()))) *)
HashCompute(t) ==
    /\ calls[t].pc = "compute"
    /\ calls' = [calls EXCEPT ![t].pc = "store", ![t].computed = TRUE,
                              ![t].h = [none |-> FALSE, h |-> hash_items(ids[1].items)]]
    /\ UNCHANGED <<ids, query, hashseed, ret, operands>>

(* self._hash = ... *)
HashStore(t) ==
    /\ calls[t].pc = "store"
    /\ ids' = [ids EXCEPT ![1].hash = calls[t].h]
    /\ calls' = [calls EXCEPT ![t].pc = "return"]
    /\ UNCHANGED <<query, hashseed, ret, operands>>

(* return self._hash *)
HashReturn(t) ==
    /\ calls[t].pc = "return"
    /\ calls' = [calls EXCEPT ![t].pc = "idle", ![t].result = ids[1].hash]
    /\ ret' = [op |-> "__hash__", raised |-> "", thread |-> t, value |-> ids[1].hash.h]
    /\ UNCHANGED <<ids, query, hashseed, operands>>

NextHash ==
    \/ \E t \in Threads : HashCall(t)
    \/ \E t \in Threads : HashTest(t)
    \/ \E t \in Threads : HashCompute(t)
    \/ \E t \in Threads : HashStore(t)
    \/ \E t \in Threads : HashReturn(t)

SpecHash == InitHash /\ [][NextHash]_vars

----------------------------------------------------------------------------
(* Properties of concurrent hashing *)

(* C14: however the steps of the threads' __hash__ calls on one DataID     *)
(* interleave, the cached hash once set never changes, and every call      *)
(* returns the cached value, so that all callers, the first ones and the   *)
(* later ones, obtain the same value.                                      *)
C14_CachedHashStable ==
    [][/\ ~ids[1].hash.none => ids'[1].hash = ids[1].hash
       /\ \A t \in Threads :
             ~calls'[t].result.none =>
                 /\ calls'[t].result = ids'[1].hash
                 /\ \A u \in Threads :
                       ~calls'[u].result.none => calls'[u].result = calls'[t].result]_vars

(* Witness of C14: two threads have both computed the hash for the first   *)
(* time in overlapping calls, and both calls have returned.                *)
C14_Witness ==
    \E t, u \in Threads :
        /\ t # u
        /\ calls[t].computed /\ calls[u].computed
        /\ calls[t].pc = "idle" /\ calls[u].pc = "idle"
        /\ ~calls[t].result.none /\ calls[t].result = calls[u].result

----------------------------------------------------------------------------
(* Properties of the result of sort_dataids *)

(* The distance sort_dataids computes for the candidate d. *)
DistanceOf(d) ==
    key_loop(query, d.items,
             set_order(DOMAIN query \cup UNION {DOMAIN ids[i].items : i \in 1..Len(ids)},
                       hashseed),
             Finite(0))

(* The sequence out is a permutation of the sequence in. *)
IsPermutation(out, in) ==
    /\ Len(out) = Len(in)
    /\ \E p \in [1..Len(in) -> 1..Len(in)] :
          /\ \A i, j \in 1..Len(in) : p[i] = p[j] => i = j
          /\ \A i \in 1..Len(in) : out[i] = in[p[i]]

(* C15: for every query and every non-empty list of candidates             *)
(* sort_dataids returns the candidates in a permutation of the input with  *)
(* the distance computed for each at the same position, the distances in   *)
(* non-decreasing order and candidates of equal distance in the order of   *)
(* DataID.__lt__; a repeated call returns the same, the result being a     *)
(* function of the query, the candidates and the interpreter.              *)
C15_SortedPermutation ==
    (ret.op = "sort_dataids" /\ ids # <<>>) =>
        /\ ret.raised = ""
        /\ IsPermutation(ret.dataids, ids)
        /\ Len(ret.distances) = Len(ids)
        /\ \A i \in 1..Len(ret.dataids) : ret.distances[i] = DistanceOf(ret.dataids[i])
        /\ \A i, j \in 1..Len(ret.distances) :
              i < j => ~dist_lt(ret.distances[j], ret.distances[i])
        /\ \A i, j \in 1..Len(ret.dataids) :
              (i < j /\ ret.distances[i] = ret.distances[j]) =>
                  DataID_lt(ret.dataids[j], ret.dataids[i]) # "true"
        /\ ret.dataids = sort_dataids(query, ids, hashseed).dataids

====
